---- MODULE Spec2Model ----
(***************************************************************************)
(* A model of the sort/merge engine of bigslice (package sortio), of the   *)
(* in-memory task buffer and of the reshuffle operator.                    *)
(*                                                                         *)
(* Rows are small integers; the comparator orders them by Key, so that     *)
(* distinct rows may compare equal.  Errors are strings: "nil" is Go's nil  *)
(* error, "EOF" is sliceio.EOF, and every collaborator that can fail has   *)
(* an error value of its own, so that an error can be traced to its origin.*)
(* A reader's Read is nondeterministic (how many rows it returns, whether  *)
(* it signals EOF together with the last rows, whether it fails), so the   *)
(* operators that call it are set-valued: they yield every outcome the     *)
(* call can have.                                                          *)
(***************************************************************************)
EXTENDS Integers, Sequences, FiniteSets, TLC

VARIABLES
  readers,   \* sortio: the run readers handed to NewMergeReader (reader objects)
  bufs,      \* sortio: the FrameBuffers NewMergeReader allocated, by reader index
  m,         \* sortio: the mergeReader: [err, Buffers]; Buffers is heap.Buffers
  mstate,    \* sortio: "none" | "ready" | "failed" (NewMergeReader returned an error)
  newErr,    \* sortio: the error NewMergeReader returned ("nil" if none)
  out,       \* sortio: all rows the merge reader has returned to its caller so far
  last,      \* sortio: what the last mergeReader.Read call was given and returned
  filled,    \* sortio: what the last FrameBuffer.Fill call read and returned
  runs0,     \* sortio: the rows of each run when its reader was handed over
  src,       \* sortio: the source reader given to SortReader
  input,     \* sortio: the rows of the source when SortReader was called
  spillTarget, \* sortio: SortReader's spillTarget argument
  f,         \* sortio: SortReader's working frame: [Len, Cap]
  spill,     \* sortio: the spill store SortReader acquired
  pc,        \* sortio: SortReader's position
  ret,       \* sortio: what SortReader returned: [reader, err]
  calib,     \* sortio: the last recalibration SortReader made
  tb,        \* bigslice: the taskBuffer (partitions of batches of rows)
  tbscope,   \* bigslice: the scope of the taskBufferReader
  tbr,       \* bigslice: the taskBufferReader: [q, i, j, k]
  tbout,     \* bigslice: all rows the taskBufferReader has returned so far
  tblast,    \* bigslice: the last taskBuffer call and its result
  slices,    \* bigslice: the upstream slices that exist: combinable or not
  nodes,     \* bigslice: the reshuffleSlice nodes created so far
  rlast      \* bigslice: the last Reshuffle / Reader call and its result

sortVars == <<src, input, spillTarget, f, spill, pc, ret, calib>>
mergeVars == <<readers, bufs, m, mstate, newErr, out, last, filled, runs0>>
tbVars == <<tb, tbscope, tbr, tbout, tblast>>
rsVars == <<slices, nodes, rlast>>
vars == <<sortVars, mergeVars, tbVars, rsVars>>

----------------------------------------------------------------------------
\* Bounds of the model.

\* Rows are 0..MaxRow.
MaxRow == 2
\* NewMergeReader is given at most MaxRuns readers.
MaxRuns == 3
\* The runs handed to NewMergeReader hold at most MaxTotal rows together.
MaxTotal == 3
\* The destination frame passed to mergeReader.Read has length 0..MaxOut.
MaxOut == 2
\* A FrameBuffer on its own is filled at most MaxFills times.
MaxFills == 4
\* Rows per FrameBuffer window and SortReader's minimum batch size
\* (sliceio.SpillBatchSize, scaled down).
SpillBatchSize == 2
\* SortReader's first ("canary") batch size (1<<14 in the code, scaled down).
CanaryRows == 3
\* The source given to SortReader holds at most MaxInput rows.
MaxInput == 5
\* The spill store reports at most MaxRowBytes bytes per row written (and
\* may report fewer bytes than rows).
MaxRowBytes == 2
\* The recalibration on its own starts from a working batch of RecalRows
\* rows, with a spill target of at most MaxSpillTarget bytes.
RecalRows == 21
MaxSpillTarget == 44
\* A taskBuffer has at most MaxParts partitions, MaxBatches batches and
\* MaxBufRows rows in all; its batches have NumCols columns.
MaxParts == 2
MaxBatches == 3
MaxBufRows == 3
NumCols == 2
\* Slice is asked for offsets 0..MaxOff, and the destination passed to
\* taskBufferReader.Read has length 0..MaxCap.
MaxOff == 4
MaxCap == 2
\* There are NumSlices upstream slices, at most MaxNodes reshuffle nodes are
\* built, Reader is called for shards 0..MaxShard with at most MaxDeps readers.
NumSlices == 2
MaxNodes == 2
MaxShard == 1
MaxDeps == 2

Rows == 0..MaxRow

\* An error other than nil and EOF.
IsError(e) == e \notin {"nil", "EOF"}

\* The error the i-th run reader reports when it fails.
RunErr(i) == "ErrRun" \o ToString(i)

Min(a, b) == IF a < b THEN a ELSE b
\* The difference taken with its sign.
AbsSigned(a) == a

\* math.Abs (sort.go:56)
Abs(a) == IF a < 0 THEN 0 - a ELSE a

RECURSIVE SeqSum(_)
SeqSum(s) == IF s = <<>> THEN 0 ELSE s[1] + SeqSum(Tail(s))

RECURSIVE Flatten(_)
Flatten(ss) == IF ss = <<>> THEN <<>> ELSE ss[1] \o Flatten(Tail(ss))

\* The multiset of the elements of a sequence.
BagOf(s) == [r \in {s[i] : i \in DOMAIN s} |-> Cardinality({i \in DOMAIN s : s[i] = r})]

\* All sequences over S of length at most n.
SeqsUpTo(S, n) == UNION {[1..k -> S] : k \in 0..n}

----------------------------------------------------------------------------
\* kernel.Sorter: the comparator.  Rows 2k and 2k+1 compare equal.

Key(r) == r \div 2

SorterLess(a, b) == Key(a) < Key(b)

IsSorted(s) == \A i, j \in DOMAIN s : i < j => ~SorterLess(s[j], s[i])

----------------------------------------------------------------------------
\* sliceio.Reader: a sequential reader over the rows in rest.

NewReader(rows, zeroNil, fails) ==
  [rest |-> rows, zeroNil |-> zeroNil, fails |-> fails, err |-> "nil"]

\* Read(ctx, frame) with frame.Len() = L: every outcome [n, err, rows, rd].
\* The reader's err is the last failure it reported.
\* A reader with rows left returns 1..L of them, the last ones with or
\* without EOF; an exhausted reader returns (0, EOF), or (0, nil) if it is
\* one of those that do; any read may fail with the reader's error.
ReaderRead(rd, L) ==
  LET fail == {[n |-> 0, err |-> rd.fails, rows |-> <<>>,
                rd |-> [rd EXCEPT !.err = rd.fails]]}
      atEnd == {[n |-> 0, err |-> e, rows |-> <<>>, rd |-> rd] :
                  e \in (IF rd.zeroNil THEN {"EOF", "nil"} ELSE {"EOF"})}
      data == UNION {
                {[n |-> n, err |-> e, rows |-> SubSeq(rd.rest, 1, n),
                  rd |-> [rd EXCEPT !.rest = SubSeq(rd.rest, n + 1, Len(rd.rest))]] :
                    e \in (IF n = Len(rd.rest) THEN {"nil", "EOF"} ELSE {"nil"})} :
                n \in 1..Min(L, Len(rd.rest))}
  IN fail \cup (IF rd.rest = <<>> THEN atEnd ELSE data)

----------------------------------------------------------------------------
\* FrameBuffer (sort.go:73-102).  Frame holds FrameCap rows, of which the
\* first FrameLen are the frame's length; Reader is the index of its reader.

NewFrameBuffer(i) ==
  [Frame |-> [k \in 1..SpillBatchSize |-> 0], FrameLen |-> SpillBatchSize,
   FrameCap |-> SpillBatchSize, Reader |-> i, Off |-> 0, Len |-> 0,
   Index |-> 0, N |-> 0]

\* Fill returning the reader's end-of-stream as it got it.
FillResultKeepsEOF(n, err) == IF n = 0 /\ err = "nil" THEN "EOF" ELSE err

\* Fill returning a read of no rows and no error as it got it.
FillResultKeepsNil(n, err) == IF err = "EOF" /\ n > 0 THEN "nil" ELSE err

\* sort.go:94-100: what Fill returns for a read of n rows with nil or EOF.
FillResult(n, err) ==
  LET err1 == IF err = "EOF" /\ n > 0 THEN "nil" ELSE err
  IN IF n = 0 /\ err1 = "nil" THEN "EOF" ELSE err1

\* Fill: every outcome [fb, rd, err, read] of filling fb from reader rd; read
\* is what the reader's Read returned.
Fill(fb, rd) ==
  LET flen == IF fb.FrameLen < fb.FrameCap THEN fb.FrameCap ELSE fb.FrameLen
  IN { LET fb1 == [fb EXCEPT !.FrameLen = flen,
                             !.Frame = res.rows \o SubSeq(@, res.n + 1, Len(@)),
                             !.Len = res.n,
                             !.N = @ + 1]
           read == [n |-> res.n, err |-> res.err, rows |-> res.rows]
       IN IF res.err # "nil" /\ res.err # "EOF"
            THEN [fb |-> fb1, rd |-> res.rd, err |-> res.err, read |-> read]
            ELSE [fb |-> [fb1 EXCEPT !.Off = 0], rd |-> res.rd,
                  err |-> FillResult(res.n, res.err), read |-> read]
       : res \in ReaderRead(rd, flen) }

----------------------------------------------------------------------------
\* FrameBufferHeap (sort.go:104-133) under container/heap.  h is
\* heap.Buffers, a sequence of FrameBuffer indices; positions are 0-based
\* as in the code.

\* Less with the read offsets left out: compares the first rows of the windows.
HeapLessNoOff(h, bs, i, j) ==
  SorterLess(bs[h[i + 1]].Frame[1], bs[h[j + 1]].Frame[1])

HeapLess(h, bs, i, j) ==
  SorterLess(bs[h[i + 1]].Frame[bs[h[i + 1]].Off + 1],
             bs[h[j + 1]].Frame[bs[h[j + 1]].Off + 1])

HeapSwap(h, i, j) == [h EXCEPT ![i + 1] = h[j + 1], ![j + 1] = h[i + 1]]

HeapPop(h) == SubSeq(h, 1, Len(h) - 1)

\* container/heap down: [h, i], the heap and the position the element ended at.
RECURSIVE HeapDown(_, _, _, _)
HeapDown(h, bs, i, n) ==
  LET j1 == 2 * i + 1
      j == IF j1 + 1 < n /\ HeapLess(h, bs, j1 + 1, j1) THEN j1 + 1 ELSE j1
  IN IF j1 >= n THEN [h |-> h, i |-> i]
     ELSE IF ~HeapLess(h, bs, j, i) THEN [h |-> h, i |-> i]
     ELSE HeapDown(HeapSwap(h, i, j), bs, j, n)

\* container/heap up.  Go's (j-1)/2 truncates, so the parent of 0 is 0.
RECURSIVE HeapUp(_, _, _)
HeapUp(h, bs, j) ==
  LET i == IF j = 0 THEN 0 ELSE (j - 1) \div 2
  IN IF i = j \/ ~HeapLess(h, bs, j, i) THEN h
     ELSE HeapUp(HeapSwap(h, i, j), bs, i)

\* heap.Init: down(i) for i = n/2-1 .. 0.
RECURSIVE HeapInitFrom(_, _, _)
HeapInitFrom(h, bs, i) ==
  IF i < 0 THEN h ELSE HeapInitFrom(HeapDown(h, bs, i, Len(h)).h, bs, i - 1)

HeapInit(h, bs) == HeapInitFrom(h, bs, (Len(h) \div 2) - 1)

\* heap.Fix left out.
HeapFixSkipped(h, bs, i) == h

\* heap.Fix(h, i)
HeapFix(h, bs, i) ==
  LET d == HeapDown(h, bs, i, Len(h))
  IN IF d.i > i THEN d.h ELSE HeapUp(h, bs, i)

\* heap.Remove(h, i)
HeapRemove(h, bs, i) ==
  LET n == Len(h) - 1
      s == HeapSwap(h, i, n)
      d == HeapDown(s, bs, i, n)
  IN IF n # i THEN HeapPop(IF d.i > i THEN d.h ELSE HeapUp(s, bs, i))
     ELSE HeapPop(h)

----------------------------------------------------------------------------
\* NewMergeReader (sort.go:145-165): every outcome [rds, bs, h, err] of
\* filling a FrameBuffer from each reader from the i-th on; a reader at EOF
\* is skipped, an error ends the construction, and heap.Init orders the rest.

RECURSIVE NewMergeReaderFrom(_, _, _, _)
NewMergeReaderFrom(rds, bs, h, i) ==
  IF i > Len(rds)
    THEN {[rds |-> rds, bs |-> bs, h |-> HeapInit(h, bs), err |-> "nil"]}
    ELSE UNION {
      LET rds1 == [rds EXCEPT ![i] = r.rd]
          bs1 == Append(bs, r.fb)
      IN IF r.err = "EOF" THEN NewMergeReaderFrom(rds1, bs1, h, i + 1)
         ELSE IF r.err # "nil" THEN {[rds |-> rds1, bs |-> bs1, h |-> h, err |-> r.err]}
         ELSE NewMergeReaderFrom(rds1, bs1, Append(h, i), i + 1)
      : r \in Fill(NewFrameBuffer(i), rds[i]) }

NewMergeReader(rds) == NewMergeReaderFrom(rds, <<>>, <<>>, 1)

----------------------------------------------------------------------------
\* mergeReader.Read (sort.go:168-199).

\* sort.go:169: the call returns at once when an error is remembered.
Latched(mr) == mr.err # "nil"

\* The error of a failed refill returned but not remembered.
LatchErrForgotten(mr, err) == mr

\* sort.go:184: the error of a failed refill is remembered.
LatchErr(mr, err) == [mr EXCEPT !.err = err]

\* EOF never remembered.
LatchEOFForgotten(mr, n) == mr

\* sort.go:195-197: a call that copied no rows remembers EOF.
LatchEOF(mr, n) == IF n = 0 THEN [mr EXCEPT !.err = "EOF"] ELSE mr

\* The loop of sort.go:177-194, from n rows copied: every outcome
\* [h, bs, rds, n, dst, err]; err is the error of a failed refill, which ends
\* the call, or "nil" when the loop ran to its end.  dst holds the rows
\* written to the destination, in order.
RECURSIVE ReadLoop(_, _, _, _, _, _)
ReadLoop(h, bs, rds, n, dst, max) ==
  IF ~(n < max /\ Len(h) > 0)
    THEN {[h |-> h, bs |-> bs, rds |-> rds, n |-> n, dst |-> dst, err |-> "nil"]}
    ELSE
      LET id == h[1]
          b == bs[id]
          dst1 == Append(dst, b.Frame[b.Off + 1])
          b1 == [b EXCEPT !.Off = @ + 1]
          bsAdv == [bs EXCEPT ![id] = b1]
      IN IF b1.Off = b1.Len
           THEN UNION {
             LET bs2 == [bs EXCEPT ![id] = r.fb]
                 rds2 == [rds EXCEPT ![b.Reader] = r.rd]
             IN IF r.err # "nil" /\ r.err # "EOF"
                  THEN {[h |-> h, bs |-> bs2, rds |-> rds2, n |-> n + 1,
                         dst |-> dst1, err |-> r.err]}
                ELSE IF r.err = "EOF"
                  THEN ReadLoop(HeapRemove(h, bs2, 0), bs2, rds2, n + 1, dst1, max)
                ELSE ReadLoop(HeapFix(h, bs2, 0), bs2, rds2, n + 1, dst1, max)
             : r \in Fill(b1, rds[b.Reader]) }
           ELSE ReadLoop(HeapFix(h, bsAdv, 0), bsAdv, rds, n + 1, dst1, max)

\* Read(ctx, out) with out.Len() = max: every outcome
\* [m, bs, rds, n, err, copied]: the reader after the call, the count and
\* error returned, and the rows the call wrote to out.
MergeRead(mr, bs, rds, max) ==
  IF Latched(mr)
    THEN {[m |-> mr, bs |-> bs, rds |-> rds, n |-> 0, err |-> mr.err, copied |-> <<>>]}
    ELSE {
      IF r.err # "nil"
        THEN [m |-> LatchErr([mr EXCEPT !.Buffers = r.h], r.err), bs |-> r.bs,
              rds |-> r.rds, n |-> 0, err |-> r.err, copied |-> r.dst]
        ELSE LET m1 == LatchEOF([mr EXCEPT !.Buffers = r.h], r.n)
             IN [m |-> m1, bs |-> r.bs, rds |-> r.rds, n |-> r.n, err |-> m1.err,
                 copied |-> r.dst]
      : r \in ReadLoop(mr.Buffers, bs, rds, 0, <<>>, max) }

\* The number of reads made on the run readers so far: every Fill makes one
\* and counts it in N (sort.go:89-90).
TotalFills(bs) == SeqSum([i \in DOMAIN bs |-> bs[i].N])

NoCall ==
  [called |-> FALSE, max |-> 0, n |-> 0, err |-> "nil", copied |-> <<>>,
   entryErr |-> "nil", fills |-> 0]

\* A caller calls Read with a destination of length max.
Read ==
  /\ mstate = "ready"
  /\ \E max \in 0..MaxOut : \E r \in MergeRead(m, bufs, readers, max) :
       /\ m' = r.m
       /\ bufs' = r.bs
       /\ readers' = r.rds
       /\ out' = out \o SubSeq(r.copied, 1, r.n)
       /\ last' = [called |-> TRUE, max |-> max, n |-> r.n, err |-> r.err,
                   copied |-> r.copied, entryErr |-> m.err,
                   fills |-> TotalFills(r.bs) - TotalFills(bufs)]
  /\ UNCHANGED <<mstate, newErr, filled, runs0, sortVars, tbVars, rsVars>>

\* A caller calls NewMergeReader on the readers it holds.
NewMerge ==
  /\ mstate = "none"
  /\ pc = "none"
  /\ \E r \in NewMergeReader(readers) :
       /\ readers' = r.rds
       /\ bufs' = r.bs
       /\ newErr' = r.err
       /\ mstate' = IF r.err = "nil" THEN "ready" ELSE "failed"
       /\ m' = IF r.err = "nil" THEN [err |-> "nil", Buffers |-> r.h] ELSE m
  /\ UNCHANGED <<out, last, filled, runs0, sortVars, tbVars, rsVars>>

\* A FrameBuffer on its own: its owner consumes the rows of the window and
\* calls Fill when the window is exhausted.

NoFill == [called |-> FALSE]

\* sort.go:178-181: the owner takes the row at Off and advances Off.
Advance ==
  /\ mstate = "buffer"
  /\ bufs[1].Off < bufs[1].Len
  /\ out' = Append(out, bufs[1].Frame[bufs[1].Off + 1])
  /\ bufs' = [bufs EXCEPT ![1].Off = @ + 1]
  /\ UNCHANGED <<readers, m, mstate, newErr, last, filled, runs0, sortVars, tbVars, rsVars>>

\* sort.go:154, 182-183: the owner calls Fill on the exhausted buffer.
FillBuffer ==
  /\ mstate = "buffer"
  /\ bufs[1].Off = bufs[1].Len
  /\ bufs[1].N < MaxFills
  /\ \E r \in Fill(bufs[1], readers[1]) :
       /\ bufs' = [bufs EXCEPT ![1] = r.fb]
       /\ readers' = [readers EXCEPT ![1] = r.rd]
       /\ filled' = [called |-> TRUE, n |-> r.read.n, rerr |-> r.read.err,
                     rows |-> r.read.rows, err |-> r.err, fb |-> r.fb,
                     before |-> bufs[1]]
  /\ UNCHANGED <<m, mstate, newErr, out, last, runs0, sortVars, tbVars, rsVars>>

----------------------------------------------------------------------------
\* The collaborators of SortReader: sliceio.ReadFull, kernel.Sorter.Sort and
\* the spill store (sliceio.Spiller).

\* ReadFull(ctx, r, f) with f.Len() = len, from n rows read: every outcome
\* [n, err, rows, rd].  It reads until the frame is full or the reader
\* reports EOF or an error.
RECURSIVE ReadFull(_, _, _, _)
ReadFull(rd, len, n, rows) ==
  IF n >= len THEN {[n |-> n, err |-> "nil", rows |-> rows, rd |-> rd]}
  ELSE UNION {
    IF r.err # "nil"
      THEN {[n |-> n + r.n, err |-> r.err, rows |-> rows \o r.rows, rd |-> r.rd]}
      ELSE ReadFull(r.rd, len, n + r.n, rows \o r.rows)
    : r \in ReaderRead(rd, len - n) }

\* Sort(g): the orders Sort may leave g in (rows that compare equal may end
\* in any order).
SorterSort(g) ==
  {s \in [DOMAIN g -> {g[i] : i \in DOMAIN g}] : IsSorted(s) /\ BagOf(s) = BagOf(g)}

NoSpiller ==
  [acquired |-> FALSE, runs |-> <<>>, spills |-> 0, cleanups |-> 0, readers |-> 0]

\* sliceio.NewSpiller(): the store, or an error.
NewSpiller ==
  {[spill |-> [NoSpiller EXCEPT !.acquired = TRUE], err |-> "nil"]}
    \cup {[spill |-> NoSpiller, err |-> "ErrNewSpiller"]}

\* The byte counts Spill may report for a run of n rows.
SpillSizes(n) == {b * n + e : b \in 0..MaxRowBytes, e \in {0, n - 1}} \ {-1}

\* Spill(g): the run is persisted and its size reported, or the call fails.
Spill(sp, g) ==
  {[spill |-> [sp EXCEPT !.runs = Append(@, g), !.spills = @ + 1],
    size |-> z, err |-> "nil"] : z \in SpillSizes(Len(g))}
    \cup {[spill |-> [sp EXCEPT !.spills = @ + 1], size |-> 0, err |-> "ErrSpill"]}

\* Readers(): one reader per persisted run, or an error.
SpillReaders(sp) ==
  {[spill |-> [sp EXCEPT !.readers = @ + 1],
    rds |-> [i \in DOMAIN sp.runs |-> NewReader(sp.runs[i], TRUE, RunErr(i))],
    err |-> "nil"]}
    \cup {[spill |-> [sp EXCEPT !.readers = @ + 1], rds |-> <<>>, err |-> "ErrReaders"]}

\* Cleanup()
Cleanup(sp) == [sp EXCEPT !.cleanups = @ + 1]

----------------------------------------------------------------------------
\* SortReader (sort.go:28-69).  pc is "start" when it has been called,
\* "loop" at the head of the loop of line 35, "readers" after the break of
\* line 48, "returned" or "panicked" when it is over.

\* SortReader without its defer statement.
NotDeferred(sp) == sp

\* sort.go:33: the deferred Cleanup runs when SortReader returns or panics.
Deferred(sp) == Cleanup(sp)

\* sort.go:50-62: the working frame after a non-final batch of n rows that
\* took size bytes: [panic, f, target].  Both divisions panic on a zero
\* divisor.
Recalibrate(fr, n, size, target) ==
  IF n = 0 \/ size \div n = 0
    THEN [panic |-> TRUE, f |-> fr, target |-> 0]
    ELSE
      LET bytesPerRow == size \div n
          t0 == target \div bytesPerRow
          targetRows == IF t0 < SpillBatchSize THEN SpillBatchSize ELSE t0
      IN [panic |-> FALSE,
          f |-> IF 20 * Abs(fr.Len - targetRows) > targetRows
                  THEN IF targetRows <= fr.Cap
                         THEN [Len |-> targetRows, Cap |-> fr.Cap]
                         ELSE [Len |-> targetRows, Cap |-> targetRows]
                  ELSE fr,
          target |-> targetRows]

\* What SortReader hands back: [reader, err].
Return(reader, err) == [reader |-> reader, err |-> err]

\* sort.go:29-34
SortBegin ==
  /\ pc = "start"
  /\ \E r \in NewSpiller :
       /\ spill' = r.spill
       /\ IF r.err # "nil"
            THEN /\ pc' = "returned"
                 /\ ret' = Return(FALSE, r.err)
                 /\ f' = f
            ELSE /\ pc' = "loop"
                 /\ ret' = ret
                 /\ f' = [Len |-> CanaryRows, Cap |-> CanaryRows]
  /\ UNCHANGED <<src, input, spillTarget, calib, mergeVars, tbVars, rsVars>>

\* One iteration of the loop of sort.go:35-63: every outcome
\* [src, f, spill, pc, ret, calib].
SortIteration(rd, fr, sp, target) ==
  UNION {
    IF rr.err # "nil" /\ rr.err # "EOF"
      THEN {[src |-> rr.rd, f |-> fr, spill |-> Deferred(sp), pc |-> "returned",
             ret |-> Return(FALSE, rr.err), calib |-> [n |-> 0]]}
      ELSE UNION { UNION {
        IF s.err # "nil"
          THEN {[src |-> rr.rd, f |-> fr, spill |-> Deferred(s.spill), pc |-> "returned",
                 ret |-> Return(FALSE, s.err), calib |-> [n |-> 0]]}
        ELSE IF rr.err = "EOF"
          THEN {[src |-> rr.rd, f |-> fr, spill |-> s.spill, pc |-> "readers",
                 ret |-> Return(FALSE, "nil"), calib |-> [n |-> 0]]}
        ELSE LET c == Recalibrate(fr, rr.n, s.size, target)
             IN IF c.panic
                  THEN {[src |-> rr.rd, f |-> fr, spill |-> Deferred(s.spill),
                         pc |-> "panicked", ret |-> Return(FALSE, "nil"),
                         calib |-> [n |-> rr.n, size |-> s.size, old |-> fr,
                                    target |-> 0]]}
                  ELSE {[src |-> rr.rd, f |-> c.f, spill |-> s.spill, pc |-> "loop",
                         ret |-> Return(FALSE, "nil"),
                         calib |-> [n |-> rr.n, size |-> s.size, old |-> fr,
                                    target |-> c.target]]}
        : s \in Spill(sp, g) } : g \in SorterSort(rr.rows) }
    : rr \in ReadFull(rd, fr.Len, 0, <<>>) }

\* sort.go:50-62 on its own: a non-final batch filled the working frame, the
\* spill store reported its size, and the frame is recalibrated.
RecalibrateBatch ==
  /\ pc = "recalibrate"
  /\ \E size \in SpillSizes(f.Len) :
       LET c == Recalibrate(f, f.Len, size, spillTarget)
       IN /\ f' = c.f
          /\ pc' = IF c.panic THEN "panicked" ELSE "recalibrate"
          /\ calib' = [n |-> f.Len, size |-> size, old |-> f, target |-> c.target]
  /\ UNCHANGED <<src, input, spillTarget, spill, ret, mergeVars, tbVars, rsVars>>

SortBatch ==
  /\ pc = "loop"
  /\ \E r \in SortIteration(src, f, spill, spillTarget) :
       /\ src' = r.src
       /\ f' = r.f
       /\ spill' = r.spill
       /\ pc' = r.pc
       /\ ret' = r.ret
       /\ calib' = r.calib
  /\ UNCHANGED <<input, spillTarget, mergeVars, tbVars, rsVars>>

\* sort.go:64-68: every outcome [spill, merged, rds, bs, h, err] of Readers
\* and NewMergeReader, with the deferred Cleanup; merged tells whether
\* NewMergeReader was called.
SortMerge(sp) ==
  UNION {
    IF r.err # "nil"
      THEN {[spill |-> Deferred(r.spill), merged |-> FALSE, rds |-> <<>>, bs |-> <<>>,
             h |-> <<>>, err |-> r.err]}
      ELSE {[spill |-> Deferred(r.spill), merged |-> TRUE, rds |-> nm.rds,
             bs |-> nm.bs, h |-> nm.h, err |-> nm.err] : nm \in NewMergeReader(r.rds)}
    : r \in SpillReaders(sp) }

SortFinish ==
  /\ pc = "readers"
  /\ \E r \in SortMerge(spill) :
       /\ spill' = r.spill
       /\ readers' = r.rds
       /\ bufs' = r.bs
       /\ newErr' = IF r.merged THEN r.err ELSE newErr
       /\ mstate' = IF ~r.merged THEN mstate
                    ELSE IF r.err = "nil" THEN "ready" ELSE "failed"
       /\ m' = IF r.err = "nil" THEN [err |-> "nil", Buffers |-> r.h] ELSE m
       /\ ret' = Return(r.err = "nil", r.err)
       /\ runs0' = spill.runs
  /\ pc' = "returned"
  /\ UNCHANGED <<out, last, filled, src, input, spillTarget, f, calib, tbVars, rsVars>>

----------------------------------------------------------------------------
\* taskBuffer (part_001:14-89): a sequence of partitions, each a sequence of
\* batches, each a sequence of NumCols column vectors of one length.
\* Partitions and batches are numbered from 0, as in the code.

AllPartitions == -1

\* The batches of partitions beg..end-1, in order.
RECURSIVE BatchesOf(_, _, _)
BatchesOf(b, beg, end) ==
  IF beg >= end THEN <<>> ELSE b[beg + 1] \o BatchesOf(b, beg + 1, end)

\* Slice's comparison with the bound included.
SliceHitInclusive(n, l, off) == n + l >= off

\* part_001:38: the batch of l rows after n rows holds offset off.
SliceHit(n, l, off) == n + l > off

\* The walk of part_001:35-44 over the batches cs, n rows passed:
\* [cols, off]; cols is <<>> for nil.
RECURSIVE SliceWalk(_, _, _)
SliceWalk(cs, n, off) ==
  IF cs = <<>> THEN [cols |-> <<>>, off |-> -1]
  ELSE LET l == Len(cs[1][1])
       IN IF SliceHit(n, l, off) THEN [cols |-> cs[1], off |-> off - n]
          ELSE SliceWalk(Tail(cs), n + l, off)

\* taskBuffer.Slice (part_001:26-45)
TaskBufferSlice(b, partition, off) ==
  LET beg == IF partition = AllPartitions THEN 0 ELSE partition
      end == IF partition = AllPartitions THEN Len(b) ELSE partition + 1
  IN SliceWalk(BatchesOf(b, beg, end), 0, off)

\* taskBuffer.Reader (part_001:84-89)
TaskBufferReader(b, partition) ==
  IF partition = AllPartitions THEN [q |-> b, i |-> 0, j |-> 0, k |-> 0]
  ELSE [q |-> <<b[partition + 1]>>, i |-> 0, j |-> 0, k |-> 0]

\* The step to the next batch that keeps the row index.
NextBatchKeepsRow(r) == [r EXCEPT !.j = @ + 1]

\* part_001:62-63
NextBatch(r) == [r EXCEPT !.j = @ + 1, !.k = 0]

\* part_001:59-60
NextPartition(r) == [r EXCEPT !.i = @ + 1, !.j = 0, !.k = 0]

\* The loop of part_001:54-67: [r, eof].
RECURSIVE ReaderSkip(_)
ReaderSkip(r) ==
  IF Len(r.q) = r.i THEN [r |-> r, eof |-> TRUE]
  ELSE IF Len(r.q[r.i + 1]) = r.j THEN ReaderSkip(NextPartition(r))
  ELSE IF Len(r.q[r.i + 1][r.j + 1][1]) = r.k THEN ReaderSkip(NextBatch(r))
  ELSE [r |-> r, eof |-> FALSE]

\* taskBufferReader.Read (part_001:52-81) with destination columns of
\* length c: [r, n, err, out]; out holds what was copied into each column.
TaskBufferRead(r, c) ==
  LET s == ReaderSkip(r)
      buf == s.r.q[s.r.i + 1][s.r.j + 1]
      avail == Len(buf[1]) - s.r.k
      n == IF avail < c THEN avail ELSE c
      l == s.r.k + n
  IN IF s.eof
       THEN [r |-> s.r, n |-> 0, err |-> "EOF", out |-> [col \in 1..NumCols |-> <<>>]]
       ELSE [r |-> [s.r EXCEPT !.k = l], n |-> n, err |-> "nil",
             out |-> [col \in 1..NumCols |-> SubSeq(buf[col], s.r.k + 1, l)]]

\* The rows of a batch, and of the first n rows of destination columns.
BatchRows(cols) == [x \in 1..Len(cols[1]) |-> [col \in 1..NumCols |-> cols[col][x]]]

\* The scopes of b a caller may address.
Scopes(b) == {AllPartitions} \cup (0..(Len(b) - 1))

\* The rows of a scope, in append order.
RECURSIVE RowsOfBatches(_)
RowsOfBatches(cs) ==
  IF cs = <<>> THEN <<>> ELSE BatchRows(cs[1]) \o RowsOfBatches(Tail(cs))

ScopeBatches(b, scope) ==
  IF scope = AllPartitions THEN BatchesOf(b, 0, Len(b))
  ELSE BatchesOf(b, scope, scope + 1)

ScopeRows(b, scope) == RowsOfBatches(ScopeBatches(b, scope))

\* A caller calls Slice.
TBSlice ==
  /\ \E scope \in Scopes(tb), off \in 0..MaxOff :
       LET r == TaskBufferSlice(tb, scope, off)
       IN tblast' = [op |-> "Slice", scope |-> scope, off |-> off, cols |-> r.cols,
                     loc |-> r.off]
  /\ UNCHANGED <<tb, tbscope, tbr, tbout, sortVars, mergeVars, rsVars>>

\* A caller obtains a Reader on a scope.
TBReader ==
  /\ \E scope \in Scopes(tb) :
       /\ tbr' = TaskBufferReader(tb, scope)
       /\ tbscope' = scope
       /\ tblast' = [op |-> "Reader", scope |-> scope]
  /\ tbout' = <<>>
  /\ UNCHANGED <<tb, sortVars, mergeVars, rsVars>>

\* A caller calls Read on the reader it obtained.
TBRead ==
  /\ tblast.op \in {"Reader", "Read"}
  /\ \E c \in 0..MaxCap :
       LET r == TaskBufferRead(tbr, c)
       IN /\ tbr' = r.r
          /\ tbout' = tbout \o BatchRows(r.out)
          /\ tblast' = [op |-> "Read", c |-> c, n |-> r.n, err |-> r.err,
                        before |-> Len(tbout)]
  /\ UNCHANGED <<tb, tbscope, sortVars, mergeVars, rsVars>>

----------------------------------------------------------------------------
\* Reshuffle (part_000:15-44).  A slice is named <<"slice", i>> (an upstream
\* slice) or <<"node", k>> (the k-th reshuffle node).

\* canMakeCombiningFrame(slice): a node has the type of its upstream.
RECURSIVE Combinable(_, _, _)
Combinable(ss, ns, s) ==
  IF s[1] = "slice" THEN ss[s[2]] ELSE Combinable(ss, ns, ns[s[2]].Slice)

\* makeName("reshuffle"): a name not given before.
MakeName(ns) == <<"reshuffle", Len(ns) + 1>>

\* Reshuffle without its check.
ReshuffleUnchecked(ss, ns, s) ==
  [panic |-> FALSE, nodes |-> Append(ns, [name |-> MakeName(ns), Slice |-> s])]

\* Reshuffle(slice) (part_000:27-32): [panic, nodes].
Reshuffle(ss, ns, s) ==
  IF ~Combinable(ss, ns, s) THEN [panic |-> TRUE, nodes |-> ns]
  ELSE [panic |-> FALSE, nodes |-> Append(ns, [name |-> MakeName(ns), Slice |-> s])]

\* part_000:35
NumDep(r) == 1

\* part_000:36: Dep{r.Slice, true, nil, false}
Dep(r, i) == [Slice |-> r.Slice, Shuffle |-> TRUE, Partitioner |-> "nil", Expand |-> FALSE]

\* part_000:37
Combiner(r) == "Nil"

\* Reader that hands back its last dependency and accepts any number.
ReshuffleReaderLast(r, shard, deps) ==
  IF deps = <<>> THEN [panic |-> TRUE, reader |-> <<>>]
  ELSE [panic |-> FALSE, reader |-> <<deps[Len(deps)]>>]

\* reshuffleSlice.Reader (part_000:39-44): [panic, reader]; reader is <<>>
\* when nothing is returned.
ReshuffleReader(r, shard, deps) ==
  IF Len(deps) # 1 THEN [panic |-> TRUE, reader |-> <<>>]
  ELSE [panic |-> FALSE, reader |-> <<deps[1]>>]

\* The slices that exist.
AllSlices == {<<"slice", i>> : i \in DOMAIN slices} \cup {<<"node", k>> : k \in DOMAIN nodes}

\* The readers the execution layer may pass to Reader.
DepReaders == {NewReader(<<x>>, FALSE, "ErrDep") : x \in Rows}

\* A caller calls Reshuffle on a slice.
RSReshuffle ==
  /\ Len(nodes) < MaxNodes
  /\ \E s \in AllSlices :
       LET r == Reshuffle(slices, nodes, s)
       IN /\ nodes' = r.nodes
          /\ rlast' = [op |-> "Reshuffle", arg |-> s, panic |-> r.panic,
                       before |-> Len(nodes)]
  /\ UNCHANGED <<slices, sortVars, mergeVars, tbVars>>

\* The execution layer asks a node for its dependencies and its combiner.
RSInspect ==
  /\ \E k \in DOMAIN nodes :
       rlast' = [op |-> "Inspect", node |-> k, numDep |-> NumDep(nodes[k]),
                 deps |-> [i \in 1..NumDep(nodes[k]) |-> Dep(nodes[k], i - 1)],
                 combiner |-> Combiner(nodes[k])]
  /\ UNCHANGED <<slices, nodes, sortVars, mergeVars, tbVars>>

\* The execution layer calls Reader on a node.
RSReader ==
  /\ \E k \in DOMAIN nodes, shard \in 0..MaxShard, deps \in SeqsUpTo(DepReaders, MaxDeps) :
       LET r == ReshuffleReader(nodes[k], shard, deps)
       IN rlast' = [op |-> "Reader", node |-> k, shard |-> shard, deps |-> deps,
                    panic |-> r.panic, reader |-> r.reader]
  /\ UNCHANGED <<slices, nodes, sortVars, mergeVars, tbVars>>

----------------------------------------------------------------------------
\* Initial states.

SortedRuns(t) == {s \in SeqsUpTo(Rows, t) : IsSorted(s)}

\* The sequences of at most k sorted runs holding at most t rows together.
RECURSIVE RunSeqs(_, _)
RunSeqs(k, t) ==
  IF k = 0 THEN {<<>>}
  ELSE {<<>>} \cup UNION { {<<r>> \o rest : rest \in RunSeqs(k - 1, t - Len(r))}
                           : r \in SortedRuns(t) }

NoMerge ==
  /\ bufs = <<>>
  /\ m = [err |-> "nil", Buffers |-> <<>>]
  /\ mstate = "none"
  /\ newErr = "nil"
  /\ out = <<>>
  /\ last = NoCall
  /\ filled = NoFill

NoSort ==
  /\ src = NewReader(<<>>, FALSE, "ErrSource")
  /\ input = <<>>
  /\ spillTarget = 0
  /\ f = [Len |-> 0, Cap |-> 0]
  /\ spill = NoSpiller
  /\ pc = "none"
  /\ ret = Return(FALSE, "nil")
  /\ calib = [n |-> 0]

NoTaskBuffer ==
  /\ tb = <<>>
  /\ tbscope = AllPartitions
  /\ tbr = [q |-> <<>>, i |-> 0, j |-> 0, k |-> 0]
  /\ tbout = <<>>
  /\ tblast = [op |-> "none"]

NoReshuffle ==
  /\ slices = <<>>
  /\ nodes = <<>>
  /\ rlast = [op |-> "none"]

\* NewMergeReader's caller holds readers over sorted runs.
InitMerge ==
  /\ \E rs \in RunSeqs(MaxRuns, MaxTotal) :
       /\ runs0 = rs
       /\ readers = [i \in DOMAIN rs |-> NewReader(rs[i], TRUE, RunErr(i))]
  /\ NoMerge /\ NoSort /\ NoTaskBuffer /\ NoReshuffle

NextMerge == NewMerge \/ Read

\* A FrameBuffer has been created over a reader, as at sort.go:150-153.
InitFill ==
  /\ \E rows \in SortedRuns(MaxTotal), zeroNil \in BOOLEAN :
       /\ runs0 = <<rows>>
       /\ readers = <<NewReader(rows, zeroNil, RunErr(1))>>
  /\ bufs = <<NewFrameBuffer(1)>>
  /\ m = [err |-> "nil", Buffers |-> <<>>]
  /\ mstate = "buffer"
  /\ newErr = "nil"
  /\ out = <<>>
  /\ last = NoCall
  /\ filled = NoFill
  /\ NoSort /\ NoTaskBuffer /\ NoReshuffle

NextFill == FillBuffer \/ Advance

SpecFill == InitFill /\ [][NextFill]_vars

\* The batches of nb batches at most and nr rows at most, as their lengths.
RECURSIVE BatchLens(_, _)
BatchLens(nb, nr) ==
  IF nb = 0 THEN {<<>>}
  ELSE {<<>>} \cup UNION { {<<l>> \o rest : rest \in BatchLens(nb - 1, nr - l)}
                           : l \in 0..nr }

\* The buffers of np partitions, nb batches and nr rows at most, as the
\* lengths of their batches.
RECURSIVE BufferShapes(_, _, _)
BufferShapes(np, nb, nr) ==
  IF np = 0 THEN {<<>>}
  ELSE {<<>>} \cup UNION {
         {<<p>> \o rest : rest \in BufferShapes(np - 1, nb - Len(p), nr - SeqSum(p))}
         : p \in BatchLens(nb, nr) }

\* The buffer of a shape: the value of column col of row x of batch j of
\* partition p tells its place.
BufferOf(shape) ==
  [p \in DOMAIN shape |->
    [j \in DOMAIN shape[p] |->
      [col \in 1..NumCols |-> [x \in 1..shape[p][j] |-> <<p, j, x, col>>]]]]

\* A task has filled a taskBuffer.
InitTaskBuffer ==
  /\ \E shape \in BufferShapes(MaxParts, MaxBatches, MaxBufRows) : tb = BufferOf(shape)
  /\ tbscope = AllPartitions
  /\ tbr = [q |-> <<>>, i |-> 0, j |-> 0, k |-> 0]
  /\ tbout = <<>>
  /\ tblast = [op |-> "none"]
  /\ readers = <<>>
  /\ runs0 = <<>>
  /\ NoMerge /\ NoSort /\ NoReshuffle

NextTaskBuffer == TBSlice \/ TBReader \/ TBRead

SpecTaskBuffer == InitTaskBuffer /\ [][NextTaskBuffer]_vars

\* Upstream slices exist, some of a type that can be combined by key.
InitReshuffle ==
  /\ slices \in [1..NumSlices -> BOOLEAN]
  /\ nodes = <<>>
  /\ rlast = [op |-> "none"]
  /\ readers = <<>>
  /\ runs0 = <<>>
  /\ NoMerge /\ NoSort /\ NoTaskBuffer

NextReshuffle == RSReshuffle \/ RSInspect \/ RSReader

SpecReshuffle == InitReshuffle /\ [][NextReshuffle]_vars

\* SortReader has been called on a source of at most MaxInput rows.
SpillTargets == {2 * SpillBatchSize, 2 * CanaryRows}

InitSort ==
  /\ \E rows \in SeqsUpTo(Rows, MaxInput) :
       /\ input = rows
       /\ src = NewReader(rows, FALSE, "ErrSource")
  /\ spillTarget \in SpillTargets
  /\ f = [Len |-> 0, Cap |-> 0]
  /\ spill = NoSpiller
  /\ pc = "start"
  /\ ret = Return(FALSE, "nil")
  /\ calib = [n |-> 0]
  /\ readers = <<>>
  /\ runs0 = <<>>
  /\ NoMerge /\ NoTaskBuffer /\ NoReshuffle

\* SortReader is in its loop with its first working batch.
InitRecalibrate ==
  /\ spillTarget \in 0..MaxSpillTarget
  /\ f = [Len |-> RecalRows, Cap |-> RecalRows]
  /\ pc = "recalibrate"
  /\ src = NewReader(<<>>, FALSE, "ErrSource")
  /\ input = <<>>
  /\ spill = NoSpiller
  /\ ret = Return(FALSE, "nil")
  /\ calib = [n |-> 0]
  /\ readers = <<>>
  /\ runs0 = <<>>
  /\ NoMerge /\ NoTaskBuffer /\ NoReshuffle

NextRecalibrate == RecalibrateBatch

SpecRecalibrate == InitRecalibrate /\ [][NextRecalibrate]_vars

\* SortReader alone.
NextSort == SortBegin \/ SortBatch \/ SortFinish

SpecSort == InitSort /\ [][NextSort]_vars

\* SortReader, and its caller reading the reader it returned.
NextSortRead == SortBegin \/ SortBatch \/ SortFinish \/ Read

SpecSortRead == InitSort /\ [][NextSortRead]_vars

SpecMerge == InitMerge /\ [][NextMerge]_vars

----------------------------------------------------------------------------
\* The merge reader (NewMergeReader, mergeReader.Read).

\* The rows of all runs handed to NewMergeReader.
AllRunRows == Flatten(runs0)

\* The rows still to come: unread in a buffer of the queue, or not yet read
\* from its reader.
RECURSIVE Pending(_)
Pending(h) ==
  IF h = <<>> THEN <<>>
  ELSE SubSeq(bufs[h[1]].Frame, bufs[h[1]].Off + 1, bufs[h[1]].Len)
         \o readers[bufs[h[1]].Reader].rest \o Pending(Tail(h))

\* No run reader has failed.
NoReaderFailed == \A i \in DOMAIN readers : readers[i].err = "nil"

\* C1: over sorted runs whose readers never fail, the rows the merge reader
\* has returned, over all its Read calls so far, are in non-decreasing order
\* under the comparator.
C1_MergeOutputSorted ==
  (mstate = "ready" /\ NoReaderFailed) => IsSorted(out)

\* C1 witness: rows of two keys from several runs have been returned by more
\* than one Read call, and a buffer was refilled on the way.
C1_Witness ==
  /\ mstate = "ready" /\ NoReaderFailed
  /\ Len(runs0) >= 2 /\ \A i \in DOMAIN runs0 : runs0[i] # <<>>
  /\ Len(out) >= 3 /\ last.n > 0 /\ last.n < Len(out)
  /\ SorterLess(out[1], out[Len(out)])
  /\ \E i \in DOMAIN bufs : bufs[i].N >= 2 /\ (bufs[i].Len > 0 \/ bufs[i].N >= 3)

\* C2 (as claimed): when the merge reader has signalled end-of-stream and no
\* run reader has failed, the rows it returned are exactly the rows of all
\* runs, as a multiset, whatever the destination lengths were.
C2_MergeOutputIsUnion ==
  (mstate = "ready" /\ m.err = "EOF" /\ NoReaderFailed)
    => BagOf(out) = BagOf(AllRunRows)

\* While no reader has failed, every row of the runs is either returned or
\* still to come: rows are neither lost nor duplicated by the merge itself.
MergeConservesRows ==
  (mstate = "ready" /\ NoReaderFailed)
    => BagOf(out \o Pending(m.Buffers)) = BagOf(AllRunRows)

\* C4: a Read call made after end-of-stream was remembered returns 0 rows
\* and end-of-stream, reads no run reader and copies nothing; the
\* end-of-stream a call returns is remembered; and a call that runs the loop
\* and copies no rows returns and remembers end-of-stream.
C4_EOFIsSticky ==
  last.called =>
    /\ (last.entryErr = "EOF" =>
          /\ last.n = 0 /\ last.err = "EOF" /\ last.fills = 0
          /\ last.copied = <<>>)
    /\ (last.err = "EOF" => m.err = "EOF")
    /\ (last.entryErr = "nil" /\ last.copied = <<>> =>
          last.n = 0 /\ last.err = "EOF")

\* C4 witness: after all rows were returned, a Read call found end-of-stream
\* remembered.
C4_Witness ==
  /\ last.called /\ last.entryErr = "EOF"
  /\ Len(out) >= 2 /\ m.Buffers = <<>>

\* C5: a Read call in which a refill fails returns the error the run reader
\* reported and remembers it; a Read call made when an error is remembered
\* returns 0 rows and that error, reads no run reader and copies nothing.
C5_ErrorIsSticky ==
  last.called =>
    /\ (last.entryErr = "nil" /\ ~NoReaderFailed =>
          /\ IsError(last.err) /\ m.err = last.err
          /\ \E i \in DOMAIN readers : readers[i].err = last.err)
    /\ (IsError(last.entryErr) =>
          /\ last.n = 0 /\ last.err = last.entryErr /\ m.err = last.entryErr
          /\ last.fills = 0 /\ last.copied = <<>>)

\* C5 witness: after some rows were returned a refill failed, and a later
\* Read call found the error remembered.
C5_Witness ==
  /\ last.called /\ IsError(last.entryErr)
  /\ Len(out) >= 1

----------------------------------------------------------------------------
\* SortReader.

\* SortReader is over: it returned or panicked.
SortOver == pc \in {"returned", "panicked"}

\* C3 (as claimed): when SortReader returned a reader, no run reader failed
\* and the reader has signalled end-of-stream, the rows it returned are a
\* permutation of the input in non-decreasing order under the comparator.
C3_SortedPermutation ==
  (pc = "returned" /\ ret.reader /\ m.err = "EOF" /\ NoReaderFailed)
    => IsSorted(out) /\ BagOf(out) = BagOf(input)

\* The reader SortReader returns yields the input in order: what it has
\* returned is sorted, and with what is still to come it is the input.
SortConservesRows ==
  (pc = "returned" /\ ret.reader /\ NoReaderFailed)
    => IsSorted(out) /\ BagOf(out \o Pending(m.Buffers)) = BagOf(input)

\* C6: once the spill store is acquired, Cleanup has run (once) when
\* SortReader is over and not before; an error is returned as its origin
\* reported it and with no reader; after an error of the source no Spill is
\* attempted, after an error of the source or of Spill Readers is not called,
\* and after an error of Readers no merge reader is built.
C6_CleanupOnEveryExit ==
  /\ (spill.acquired => spill.cleanups = (IF SortOver THEN 1 ELSE 0))
  /\ (pc = "returned" /\ IsError(ret.err) =>
        /\ ~ret.reader /\ mstate # "ready"
        /\ \/ ret.err = "ErrNewSpiller" /\ ~spill.acquired
           \/ ret.err = src.err /\ spill.spills = Len(spill.runs) /\ spill.readers = 0
           \/ /\ ret.err = "ErrSpill" /\ spill.spills = Len(spill.runs) + 1
              /\ spill.readers = 0 /\ src.err = "nil"
           \/ ret.err = "ErrReaders" /\ spill.readers = 1 /\ mstate = "none"
           \/ /\ mstate = "failed" /\ ret.err = newErr
              /\ \E i \in DOMAIN readers : readers[i].err = ret.err)
  /\ (pc = "returned" /\ ~IsError(ret.err) => ret.reader /\ mstate = "ready")

\* C6 witness: Spill failed after two runs had been persisted, and SortReader
\* returned its error.
C6_Witness ==
  /\ pc = "returned" /\ ret.err = "ErrSpill" /\ ~ret.reader
  /\ Len(spill.runs) >= 2 /\ spill.cleanups = 1

\* C16: after a non-final batch of n rows for which size bytes were
\* written, with target = max(spillTarget div (size div n), SpillBatchSize):
\* if the length of the working batch differs from target by more than 5%
\* of target, the next working batch has length target (with the old
\* capacity when target fits it, with capacity target otherwise); if not,
\* the working batch is unchanged.  This holds after every such batch.
C16_Recalibration ==
  (calib.n > 0 /\ pc # "panicked") =>
    LET bytesPerRow == calib.size \div calib.n
        t0 == spillTarget \div bytesPerRow
        target == IF t0 < SpillBatchSize THEN SpillBatchSize ELSE t0
    IN /\ calib.n = calib.old.Len
       /\ calib.target = target
       /\ IF 20 * (calib.old.Len - target) > target
             \/ 20 * (target - calib.old.Len) > target
            THEN /\ f.Len = target
                 /\ f.Cap = (IF target <= calib.old.Cap THEN calib.old.Cap ELSE target)
            ELSE f = calib.old

\* C16 witness: a batch that was not the first found the working batch
\* shorter than the target by more than 5% and longer than its capacity.
C16_Witness ==
  /\ pc = "recalibrate" /\ calib.n > 0
  /\ calib.old.Len # RecalRows /\ calib.old.Len < RecalRows
  /\ calib.target > calib.old.Cap /\ f.Len = calib.target

\* The working batch differed from the target by less than 5% and was left
\* as it was.
RecalibrationWithinFivePercent ==
  /\ pc = "recalibrate" /\ calib.n > 0
  /\ calib.old.Len # calib.target /\ f = calib.old

\* C19 (as claimed): for every non-final batch the number of rows written
\* and the bytes-per-row estimate are positive, so that neither division of
\* the recalibration divides by zero.
C19_ArithmeticDefined ==
  /\ pc # "panicked"
  /\ (calib.n > 0 => calib.size \div calib.n > 0)

\* The number of rows written by a non-final batch is positive: only the
\* second division can divide by zero, when fewer bytes than rows were
\* written.
OnlyBytesPerRowIsZero ==
  pc = "panicked" => calib.n > 0 /\ calib.size < calib.n

\* C20 (as claimed): every read of a run reader happens before Cleanup: a
\* Read call of the merge reader that refills a buffer finds that Cleanup
\* has not run.
C20_NoReadAfterCleanup ==
  (last.called /\ last.fills > 0) => spill.cleanups = 0

\* Readers is called once and after all Spill calls, and the fills of
\* NewMergeReader are made before SortReader is over.
SpillsBeforeReaders ==
  /\ (spill.readers > 0 => pc = "returned" /\ spill.readers = 1)
  /\ (pc \in {"start", "loop", "readers"} => spill.cleanups = 0 /\ bufs = <<>>)

----------------------------------------------------------------------------
\* The task buffer.

\* The number of rows in the first t batches of cs.
RowsBefore(cs, t) == SeqSum([u \in 1..(t - 1) |-> Len(cs[u][1])])

\* C7: Slice(scope, o) with 0 <= o < the row count of the scope returns the
\* batch that holds global row o and o minus the rows of the batches before
\* it, so that the row at the returned offset is global row o; with o at or
\* past the row count it returns no data and -1.
C7_SliceFindsRow ==
  tblast.op = "Slice" =>
    LET cs == ScopeBatches(tb, tblast.scope)
        rows == ScopeRows(tb, tblast.scope)
    IN IF tblast.off < Len(rows)
         THEN /\ tblast.cols # <<>>
              /\ \E t \in DOMAIN cs :
                   /\ cs[t] = tblast.cols
                   /\ tblast.loc = tblast.off - RowsBefore(cs, t)
              /\ tblast.loc >= 0 /\ tblast.loc < Len(tblast.cols[1])
              /\ BatchRows(tblast.cols)[tblast.loc + 1] = rows[tblast.off + 1]
         ELSE tblast.cols = <<>> /\ tblast.loc = -1

\* C7 witness: over all partitions, the offset asked for lies inside a batch
\* of the second partition, past an empty batch.
C7_Witness ==
  /\ tblast.op = "Slice" /\ tblast.scope = AllPartitions
  /\ tblast.cols # <<>> /\ tblast.loc >= 1 /\ tblast.off > tblast.loc
  /\ tblast.cols[1][1][1] = 2
  /\ \E p \in DOMAIN tb : \E j \in DOMAIN tb[p] : tb[p][j][1] = <<>>

\* C8: the rows a reader has returned are the first rows of its scope, in
\* append order; a Read with a destination of length c >= 1 returns 1..c
\* rows and no error while rows remain, and 0 rows and end-of-stream once all
\* rows of the scope have been returned.
C8_ReaderInOrder ==
  LET rows == ScopeRows(tb, tbscope)
  IN /\ Len(tbout) <= Len(rows) /\ tbout = SubSeq(rows, 1, Len(tbout))
     /\ (tblast.op = "Read" /\ tblast.c >= 1 =>
           IF tblast.before < Len(rows)
             THEN /\ tblast.n >= 1 /\ tblast.n <= tblast.c /\ tblast.err = "nil"
                  /\ Len(tbout) = tblast.before + tblast.n
             ELSE tblast.n = 0 /\ tblast.err = "EOF" /\ tbout = rows)

\* C8 witness: over all partitions, a Read resumed inside a batch of the
\* second partition that is not its first, after rows of the first partition
\* were returned by earlier calls.
C8_Witness ==
  /\ tblast.op = "Read" /\ tbscope = AllPartitions
  /\ tblast.n >= 1 /\ tblast.before >= 2
  /\ tbr.i = 1 /\ tbr.j >= 1 /\ tbr.k >= 1
  /\ tb[1] # <<>>

----------------------------------------------------------------------------
\* Reshuffle.

\* C9: Reshuffle on a slice that fails the check panics and creates no node;
\* on another slice it creates exactly one node, which reports one
\* dependency: the slice given, as a shuffle dependency, and no combiner.
C9_ReshuffleConstruction ==
  /\ (rlast.op = "Reshuffle" =>
        IF ~Combinable(slices, nodes, rlast.arg)
          THEN rlast.panic /\ Len(nodes) = rlast.before
          ELSE /\ ~rlast.panic /\ Len(nodes) = rlast.before + 1
               /\ nodes[Len(nodes)].Slice = rlast.arg
               /\ \A k \in 1..rlast.before : nodes[k].name # nodes[Len(nodes)].name)
  /\ (rlast.op = "Inspect" =>
        /\ rlast.numDep = 1 /\ Len(rlast.deps) = 1
        /\ rlast.deps[1].Slice = nodes[rlast.node].Slice
        /\ rlast.deps[1].Shuffle
        /\ rlast.combiner = "Nil")
  /\ \A k \in DOMAIN nodes : Combinable(slices, nodes, nodes[k].Slice)

\* C9 witness: after a node was built on a slice that passes the check,
\* Reshuffle was called on a slice that fails it.
C9_Witness ==
  /\ rlast.op = "Reshuffle" /\ rlast.panic
  /\ rlast.before = 1 /\ Len(nodes) = 1

\* C10: Reader, given exactly one reader, returns that reader; given none or
\* more than one it panics and returns nothing.
C10_ReaderPassThrough ==
  rlast.op = "Reader" =>
    IF Len(rlast.deps) = 1
      THEN ~rlast.panic /\ rlast.reader = <<rlast.deps[1]>>
      ELSE rlast.panic /\ rlast.reader = <<>>

\* C10 witness: Reader was called for shard 1 with two different readers.
C10_Witness ==
  /\ rlast.op = "Reader" /\ rlast.shard = 1
  /\ Len(rlast.deps) = 2 /\ rlast.deps[1] # rlast.deps[2]

----------------------------------------------------------------------------
\* The read-ahead buffers and the merge priority queue.

\* The buffers in the queue, and the row a buffer holds at its read offset.
Queue == {m.Buffers[p] : p \in DOMAIN m.Buffers}

CurrentRow(id) == bufs[id].Frame[bufs[id].Off + 1]

\* C11 (as claimed): every FrameBuffer has 0 <= Off <= Len <= the capacity of
\* its window, in every state: after construction, after every Fill whatever
\* it returned, and after every offset advance.
C11_BufferWindow ==
  \A i \in DOMAIN bufs :
    /\ 0 <= bufs[i].Off /\ bufs[i].Off <= bufs[i].Len
    /\ bufs[i].Len <= bufs[i].FrameCap

\* The window invariant holds for every buffer whose reader has not failed.
BufferWindowUnlessFailed ==
  \A i \in DOMAIN bufs :
    readers[bufs[i].Reader].err = "nil" =>
      /\ 0 <= bufs[i].Off /\ bufs[i].Off <= bufs[i].Len
      /\ bufs[i].Len <= bufs[i].FrameCap

\* C12: a read of n > 0 rows, with no error or with end-of-stream, makes
\* Fill return no error with Len = n, Off = 0 and the rows in the window; a
\* read of 0 rows with no error or with end-of-stream makes Fill return
\* end-of-stream; any other error is returned unchanged; and while the reader
\* has not failed no row is dropped: the rows consumed, the unread rows of
\* the window and the rows left in the reader are the run.
C12_FillNormalizes ==
  /\ (filled.called =>
        /\ (filled.n > 0 /\ ~IsError(filled.rerr) =>
              /\ filled.err = "nil"
              /\ filled.fb.Len = filled.n /\ filled.fb.Off = 0
              /\ SubSeq(filled.fb.Frame, 1, filled.n) = filled.rows)
        /\ (filled.n = 0 /\ ~IsError(filled.rerr) => filled.err = "EOF")
        /\ (IsError(filled.rerr) => filled.err = filled.rerr)
        /\ filled.fb.N = filled.before.N + 1)
  /\ (mstate = "buffer" /\ readers[1].err = "nil" =>
        out \o SubSeq(bufs[1].Frame, bufs[1].Off + 1, bufs[1].Len)
          \o readers[1].rest = runs0[1])

\* C12 witness: a read returned the last rows of the run together with
\* end-of-stream, into a buffer that had been filled and consumed before.
C12_Witness ==
  /\ mstate = "buffer" /\ filled.called
  /\ filled.n > 0 /\ filled.rerr = "EOF" /\ filled.before.N >= 1
  /\ out # <<>>

\* C12 witness of the later Fill: after the rows that came with
\* end-of-stream were consumed, Fill read 0 rows and returned end-of-stream.
FillReportsEOFLater ==
  /\ mstate = "buffer" /\ filled.called
  /\ filled.n = 0 /\ filled.err = "EOF" /\ out = runs0[1] /\ Len(out) >= 2

\* C13: after NewMergeReader and after every Read that returned no error
\* other than end-of-stream, the row at the read offset of the buffer at the
\* head of the queue is smallest under the comparator among the current rows
\* of the buffers in the queue, and the queue is in heap order.
C13_HeadIsSmallest ==
  (mstate = "ready" /\ ~IsError(m.err)) =>
    /\ \A p \in DOMAIN m.Buffers :
         ~SorterLess(CurrentRow(m.Buffers[p]), CurrentRow(m.Buffers[1]))
    /\ \A p \in 2..Len(m.Buffers) :
         ~SorterLess(CurrentRow(m.Buffers[p]), CurrentRow(m.Buffers[p \div 2]))

\* C13 witness: a Read advanced the head buffer to its end and refilled it,
\* and the fix moved it behind a buffer with a row of a smaller key.
C13_Witness ==
  /\ mstate = "ready" /\ m.err = "nil" /\ last.called /\ last.n >= 1
  /\ last.fills >= 1 /\ Len(m.Buffers) = 2
  /\ SorterLess(CurrentRow(m.Buffers[1]), CurrentRow(m.Buffers[2]))
  /\ m.Buffers[1] = 2 /\ bufs[1].N >= 2

\* C14 (as claimed): every buffer in the queue has its Index field equal to
\* its position in the queue's storage.
C14_IndexIsPosition ==
  mstate = "ready" =>
    \A p \in DOMAIN m.Buffers : bufs[m.Buffers[p]].Index = p - 1

\* C15 (as claimed): the count a Read call returns is the number of rows the
\* call copied into the destination and consumed from the buffers.
C15_CountIsRowsCopied ==
  last.called => last.n = Len(last.copied)

\* The count is the number of rows copied on every return without an error.
CountIsRowsCopiedUnlessError ==
  (last.called /\ ~IsError(last.err)) => last.n = Len(last.copied)

\* C17 (as claimed): the merge reader has returned and remembered
\* end-of-stream only when the queue is empty.
C17_EOFOnlyWhenDrained ==
  (mstate = "ready" /\ m.err = "EOF") => m.Buffers = <<>>

\* After a Read with a destination of length at least 1, end-of-stream is
\* returned only when the queue is empty.
EOFOnlyWhenDrainedNonEmptyDst ==
  (last.called /\ last.entryErr = "nil" /\ last.max >= 1 /\ last.err = "EOF")
    => m.Buffers = <<>>

\* C18: while no error other than end-of-stream is remembered, every buffer
\* in the queue has unread rows and no row is overwritten unread (every row
\* of the runs is returned or still to come); a buffer outside the queue is
\* empty, never returns to the queue, and its reader is never read again.
C18_QueueBuffersUnread ==
  /\ []((mstate = "ready" /\ ~IsError(m.err)) =>
          /\ \A i \in Queue : bufs[i].Off < bufs[i].Len
          /\ \A i \in DOMAIN bufs : i \notin Queue => bufs[i].Len = 0
          /\ BagOf(out \o Pending(m.Buffers)) = BagOf(AllRunRows))
  /\ [][mstate = "ready" =>
          /\ Queue' \subseteq Queue
          /\ \A i \in DOMAIN bufs :
               i \notin Queue => bufs'[i].N = bufs[i].N]_vars

\* C18 witness: a buffer left the queue when its refill reported
\* end-of-stream, and a later Read returned rows of another buffer.
C18_Witness ==
  /\ mstate = "ready" /\ m.err = "nil" /\ last.called /\ last.n >= 1
  /\ last.fills = 0 /\ Len(m.Buffers) >= 1
  /\ \E i \in DOMAIN bufs : i \notin Queue /\ bufs[i].N >= 2

====
